---- MODULE Spec2Model ----
(***************************************************************************)
(* A model of AllanJS (src/allan.js): one Allan.Dataset, its sample arrays  *)
(* x (phase) and y (frequency), its memoization table `values`, and the     *)
(* statistic queries that fill it.                                          *)
(*                                                                          *)
(* Numbers.  A JavaScript number is modelled by an exact rational <<n, d>>  *)
(* in lowest terms with d > 0; <<0, 0>> stands for NaN and <<1, 0>>,        *)
(* <<-1, 0>> for the infinities (a division by zero).  Rounding of IEEE     *)
(* doubles is not modelled.                                                 *)
(*                                                                          *)
(* Deviations.  Every deviation the library returns is Math.sqrt(q) / k or  *)
(* the literal 0.  Such a value is kept as the record [rad |-> q / k^2],    *)
(* "the non-negative real whose square is rad"; the literal 0 is            *)
(* [rad |-> 0].  Math.sqrt is injective on non-negative numbers, so two     *)
(* deviations are equal exactly when their records are.                     *)
(***************************************************************************)
EXTENDS Integers, Sequences, FiniteSets, TLC

\* ------------------------------------------------------------------ bounds
\* Longest sample array handed to a load operation.
MaxLen == 7
\* Largest averaging factor m a query is made with.
MaxM == 2
\* Largest slope of a ramp input.
MaxSlope == 1
\* Position (from 1) of the single 1 in a pulse input.
PulseAt == 3
\* Number of load operations in one behaviour.
MaxLoads == 2
\* Number of statistic queries that miss the cache in one behaviour.
MaxMisses == 2
\* Largest tau0 handed to the conversion primitives (0 stands for "omitted").
MaxTau0 == 2
\* Longest sequence, and largest absolute value in it, handed to the
\* conversion primitives alone.
MaxConvLen == 3
MaxConvVal == 1
\* Longest phase array handed to the modified total deviation alone.
MaxTotLen == 9

\* --------------------------------------------------------------- constants
\* var MIN_SAMPLES = 3;
MIN_SAMPLES == 3

\* `undefined`: a hole of a sparse array, or a variable never assigned.
Undefined == [undefined |-> TRUE]

\* ----------------------------------------------------------------- numbers
RECURSIVE Gcd(_, _)
Gcd(a, b) ==
  IF b = 0 THEN a ELSE Gcd(b, a % b)

Abs(a) ==
  IF a < 0 THEN -a ELSE a

NaN == <<0, 0>>

\* The number n / d, d # 0, in lowest terms with a positive denominator.
RNorm(n, d) ==
  IF d = 1 THEN <<n, 1>>
  ELSE LET g == Gcd(Abs(n), Abs(d))
           s == IF d < 0 THEN -1 ELSE 1
       IN  <<(s * n) \div g, (s * d) \div g>>

R(n) == <<n, 1>>

R0 == <<0, 1>>

RAdd(a, b) ==
  IF a[2] = 1 /\ b[2] = 1 THEN <<a[1] + b[1], 1>>
  ELSE RNorm(a[1] * b[2] + b[1] * a[2], a[2] * b[2])

RSub(a, b) ==
  IF a[2] = 1 /\ b[2] = 1 THEN <<a[1] - b[1], 1>>
  ELSE RNorm(a[1] * b[2] - b[1] * a[2], a[2] * b[2])

RMul(a, b) ==
  IF a[2] = 1 /\ b[2] = 1 THEN <<a[1] * b[1], 1>>
  ELSE RNorm(a[1] * b[1], a[2] * b[2])

\* a / b as JavaScript divides: x / 0 is an infinity, 0 / 0 is NaN.
RDiv(a, b) ==
  IF b[1] = 0
  THEN (IF a[1] = 0 THEN NaN ELSE IF a[1] > 0 THEN <<1, 0>> ELSE <<-1, 0>>)
  ELSE RNorm(a[1] * b[2], a[2] * b[1])

RSq(a) == RMul(a, a)

\* a[i] of a JavaScript array held as a sequence (indices from 0).
At(a, i) == a[i + 1]

\* m = m || 1
OrOne(m) ==
  IF m = 0 THEN 1 ELSE m

\* ------------------------------------------------------- conversion (4.1)
\* A faulty variant: the loop stops one element early (i + 2 < len).
RECURSIVE phaseToFreqLoopShort(_, _, _, _)
phaseToFreqLoopShort(x, m, i, y) ==
  IF i + 2 < Len(x)
  THEN phaseToFreqLoopShort(x, m, i + 1,
                       Append(y, RDiv(RSub(At(x, i + 1), At(x, i)), R(m))))
  ELSE y

RECURSIVE phaseToFreqLoop(_, _, _, _)
phaseToFreqLoop(x, m, i, y) ==
  IF i + 1 < Len(x)
  THEN phaseToFreqLoop(x, m, i + 1,
                       Append(y, RDiv(RSub(At(x, i + 1), At(x, i)), R(m))))
  ELSE y

\* A faulty variant: the averaging time is ignored (no division by m).
phaseToFreqNoTau(x, m) ==
  phaseToFreqLoop(x, 1, 0, <<>>)

phaseToFreq(x, m) ==
  phaseToFreqLoop(x, OrOne(m), 0, <<>>)

RECURSIVE freqToPhaseLoop(_, _, _, _)
freqToPhaseLoop(y, m, i, x) ==
  IF i <= Len(y)
  THEN freqToPhaseLoop(y, m, i + 1,
                       Append(x, RAdd(At(x, i - 1), RMul(At(y, i - 1), R(m)))))
  ELSE x

\* A faulty variant: the frequencies are integrated with a step one too large.
freqToPhaseWideStep(y, m) ==
  freqToPhaseLoop(y, OrOne(m) + 1, 1, <<R0>>)

freqToPhase(y, m) ==
  freqToPhaseLoop(y, OrOne(m), 1, <<R0>>)

\* ------------------------------------------------------------- deviations
\* The literal 0 an estimator returns for insufficient data.
Zero == [rad |-> R0]

\* Math.sqrt(q) / k
SqrtOver(q, k) == [rad |-> RDiv(q, R(k * k))]

\* A faulty variant: n >= MIN_SAMPLES
EnoughAtLeast(n) == n >= MIN_SAMPLES

\* A faulty variant: n > MIN_SAMPLES + 1
EnoughAbove(n) == n > MIN_SAMPLES + 1

\* n > MIN_SAMPLES
Enough(n) == n > MIN_SAMPLES

\* (n > MIN_SAMPLES) ? <the square-root formula> : 0, and the branch taken
Gated(n, formula) ==
  IF Enough(n) THEN [gate |-> "sqrt", val |-> formula]
  ELSE [gate |-> "zero", val |-> Zero]

\* A faulty variant: x[i + 2 * m] - x[i + m] + x[i] (the factor 2 is lost)
Diff2NoDouble(x, i, m) ==
  RAdd(RSub(At(x, i + 2 * m), At(x, i + m)), At(x, i))

\* x[i + 2 * m] - 2 * x[i + m] + x[i]
Diff2(x, i, m) ==
  RAdd(RSub(At(x, i + 2 * m), RMul(R(2), At(x, i + m))), At(x, i))

\* A faulty variant: x[i + 3 * m] - 2 * x[i + 2 * m] + 2 * x[i + m] - x[i]
Diff3By2(x, i, m) ==
  RSub(RAdd(RSub(At(x, i + 3 * m), RMul(R(2), At(x, i + 2 * m))),
            RMul(R(2), At(x, i + m))),
       At(x, i))

\* x[i + 3 * m] - 3 * x[i + 2 * m] + 3 * x[i + m] - x[i]
Diff3(x, i, m) ==
  RSub(RAdd(RSub(At(x, i + 3 * m), RMul(R(3), At(x, i + 2 * m))),
            RMul(R(3), At(x, i + m))),
       At(x, i))

\* What one run of an estimator body (a cache miss) leaves behind:
\*   val   the value stored in the cache and returned,
\*   gate  "sqrt" when the n > MIN_SAMPLES branch was taken, else "zero",
\*   n     the number of terms accumulated,
\*   acc   the accumulator the square-root formula reads (sum, or d),
\*   idx   the loop indices at which a term was accumulated, in order,
\*   gv    [num |-> w] for the value w last assigned to the undeclared
\*         variable v (a property of the global object), Undefined if the
\*         body assigns none.
Run(g, n, acc, idx, gv) ==
  [val |-> g.val, gate |-> g.gate, n |-> n, acc |-> acc, idx |-> idx,
   gv |-> gv]

\* The loop of getAdev (step 1) and of getOadev (step m).
RECURSIVE Diff2Loop(_, _, _, _, _, _, _)
Diff2Loop(x, m, step, i, sum, n, idx) ==
  IF i < Len(x) - 2 * m
  THEN LET w == Diff2(x, i, m)
       IN  Diff2Loop(x, m, step, i + step, RAdd(sum, RSq(w)), n + 1,
                     Append(idx, i))
  ELSE [sum |-> sum, n |-> n, idx |-> idx]

\* The loop of getHdev (step 1) and of getOhdev (step m).
RECURSIVE Diff3Loop(_, _, _, _, _, _, _)
Diff3Loop(x, m, step, i, sum, n, idx) ==
  IF i < Len(x) - 3 * m
  THEN LET w == Diff3(x, i, m)
       IN  Diff3Loop(x, m, step, i + step, RAdd(sum, RSq(w)), n + 1,
                     Append(idx, i))
  ELSE [sum |-> sum, n |-> n, idx |-> idx]

\* (n > MIN_SAMPLES) ? Math.sqrt(sum / (2 * n)) / m : 0
AdevValue(l, m) ==
  Gated(l.n, SqrtOver(RDiv(l.sum, R(2 * l.n)), m))

\* (n > MIN_SAMPLES) ? Math.sqrt(sum / (6 * n)) / m : 0
HdevValue(l, m) ==
  Gated(l.n, SqrtOver(RDiv(l.sum, R(6 * l.n)), m))

\* The indices of x read by the second difference at i.
Diff2Reads(i, m) == {i + 2 * m, i + m, i}

\* A faulty variant: getAdev advances its window by m, as getOadev does.
adevBodyStrided(x, m) ==
  LET l == Diff2Loop(x, m, m, 0, R0, 0, <<>>)
  IN  Run(AdevValue(l, m), l.n, l.sum, l.idx, Undefined)

adevBody(x, m) ==
  LET l == Diff2Loop(x, m, 1, 0, R0, 0, <<>>)
  IN  Run(AdevValue(l, m), l.n, l.sum, l.idx, Undefined)

oadevBody(x, m) ==
  LET l == Diff2Loop(x, m, m, 0, R0, 0, <<>>)
  IN  Run(AdevValue(l, m), l.n, l.sum, l.idx, Undefined)

hdevBody(x, m) ==
  LET l == Diff3Loop(x, m, 1, 0, R0, 0, <<>>)
  IN  Run(HdevValue(l, m), l.n, l.sum, l.idx, Undefined)

ohdevBody(x, m) ==
  LET l == Diff3Loop(x, m, m, 0, R0, 0, <<>>)
  IN  Run(HdevValue(l, m), l.n, l.sum, l.idx, Undefined)

\* getMdev, first loop: v += x[i + 2m] - 2x[i + m] + x[i] for i < len - 2m, i < m
RECURSIVE MdevFirst(_, _, _, _)
MdevFirst(x, m, i, v) ==
  IF i < Len(x) - 2 * m /\ i < m
  THEN MdevFirst(x, m, i + 1, RAdd(v, Diff2(x, i, m)))
  ELSE v

\* getMdev, second loop: v += third difference; sum += v * v; n++
\* (vs: the values of v that were squared into sum, in order)
RECURSIVE MdevSecond(_, _, _, _, _, _, _, _)
MdevSecond(x, m, i, v, sum, n, idx, vs) ==
  IF i < Len(x) - 3 * m
  THEN LET w == RAdd(v, Diff3(x, i, m))
       IN  MdevSecond(x, m, i + 1, w, RAdd(sum, RSq(w)), n + 1, Append(idx, i),
                      Append(vs, w))
  ELSE [sum |-> sum, n |-> n, idx |-> idx, vs |-> vs]

\* getMdev: both loops, from v = 0, sum = 0, n = 0
MdevLoops(x, m) ==
  LET v0 == MdevFirst(x, m, 0, R0)
  IN  MdevSecond(x, m, 0, v0, RSq(v0), 1, <<>>, <<v0>>)

mdevBody(x, m) ==
  LET l  == MdevLoops(x, m)
      g  == Gated(l.n, SqrtOver(RDiv(l.sum, R(2 * m * m * l.n)), m))
  IN  Run(g, l.n, l.sum, l.idx, Undefined)

\* getTotdev: the mirror extension, built on nx = this.x.slice(0).
\*   nx.unshift(2 * x[0] - x[i]); nx.push(2 * x[len - 1] - x[len - 1 - i]); e++
RECURSIVE TotdevExtend(_, _, _, _)
TotdevExtend(x, i, nx, e) ==
  IF i < Len(x) - 1
  THEN TotdevExtend(x, i + 1,
         <<RSub(RMul(R(2), At(x, 0)), At(x, i))>> \o nx \o
         <<RSub(RMul(R(2), At(x, Len(x) - 1)), At(x, Len(x) - 1 - i))>>,
         e + 1)
  ELSE [nx |-> nx, e |-> e]

\* A faulty variant: the guard lets one more m through (<= 3 * len - 3).
TotdevGuardLoose(e, len, m) == e + len + m - 1 <= 3 * len - 3

\* if (e + len + m - 1 <= 3 * len - 4)
TotdevGuard(e, len, m) == e + len + m - 1 <= 3 * len - 4

\* The indices of nx read at step i of the loop of getTotdev.
TotdevReads(e, i, m) == {e + i - m, e + i, e + i + m}

\* v = nx[e + i - m] - 2 * nx[e + i] + nx[e + i + m]; sum += v * v; n++
RECURSIVE TotdevLoop(_, _, _, _, _, _, _, _)
TotdevLoop(nx, e, len, m, i, sum, n, idx) ==
  IF i < len - 1
  THEN LET w == RAdd(RSub(At(nx, e + i - m), RMul(R(2), At(nx, e + i))),
                     At(nx, e + i + m))
       IN  TotdevLoop(nx, e, len, m, i + 1, RAdd(sum, RSq(w)), n + 1,
                      Append(idx, i))
  ELSE [sum |-> sum, n |-> n, idx |-> idx]

totdevBody(x, m) ==
  LET len == Len(x)
      ext == TotdevExtend(x, 1, x, 0)
      l   == IF TotdevGuard(ext.e, len, m)
             THEN LET t == TotdevLoop(ext.nx, ext.e, len, m, 1, R0, 0, <<>>)
                  IN  [sum |-> RDiv(t.sum, R(2)), n |-> t.n, idx |-> t.idx]
             ELSE [sum |-> R0, n |-> 0, idx |-> <<>>]
      g   == Gated(l.n, SqrtOver(RDiv(l.sum, R(l.n)), m))
  IN  Run(g, l.n, l.sum, l.idx, Undefined)

\* ---- getMtotdev and getHtotdev: one window n of the sample array a
\* half = Math.floor((3 * m + 1) / 2)
Half(m) == (3 * m + 1) \div 2

\* f += (a[n + i + half] - a[n + i]) / half, for i < Math.floor(3 * m / 2)
RECURSIVE DriftLoop(_, _, _, _, _)
DriftLoop(a, m, n, i, f) ==
  IF i < (3 * m) \div 2
  THEN DriftLoop(a, m, n, i + 1,
                 RAdd(f, RDiv(RSub(At(a, n + i + Half(m)), At(a, n + i)),
                              R(Half(m)))))
  ELSE RDiv(f, R(i))

\* zx[i] = a[n + i] - f * i, for 0 <= i <= 3m - 1 (as a function on 0..3m-1)
Detrend(a, m, n, f) ==
  [i \in 0..(3 * m - 1) |-> RSub(At(a, n + i), RMul(f, R(i)))]

\* nx[n + i] = zx[3m - i - 1]; nx[n + 3m + i] = zx[i]; nx[n + 6m + i] = zx[3m - i - 1]
\* (a sparse array: a function on n..n + 9m - 1)
Reflect(zx, m, n) ==
  [k \in n..(n + 9 * m - 1) |->
     LET j == k - n
     IN  IF j < 3 * m THEN zx[3 * m - j - 1]
         ELSE IF j < 6 * m THEN zx[j - 3 * m]
         ELSE zx[3 * m - (j - 6 * m) - 1]]

\* av += nx[from + j] for j < m; av /= m
RECURSIVE BlockAvg(_, _, _, _, _)
BlockAvg(nx, from, m, j, av) ==
  IF j < m
  THEN BlockAvg(nx, from, m, j + 1, RAdd(av, nx[from + j]))
  ELSE RDiv(av, R(m))

\* for (i = n - 3m; i <= n + 3m - 1; i++) { v = av1 - 2 * av2 + av3; sum += v * v }
RECURSIVE WindowLoop(_, _, _, _, _, _)
WindowLoop(nx, m, n, i, sum, v) ==
  IF i <= n + 3 * m - 1
  THEN LET av1 == BlockAvg(nx, i + 3 * m, m, 0, R0)
           av2 == BlockAvg(nx, i + 3 * m + m, m, 0, R0)
           av3 == BlockAvg(nx, i + 3 * m + 2 * m, m, 0, R0)
           w   == RAdd(RSub(av1, RMul(R(2), av2)), av3)
       IN  WindowLoop(nx, m, n, i + 1, RAdd(sum, RSq(w)), [num |-> w])
  ELSE [sum |-> sum, v |-> v]

\* for (n = 0; n < len - 3 * m + 1; n++) { ...; d += sum / 6 * m }
RECURSIVE TotalLoop(_, _, _, _, _, _)
TotalLoop(a, m, n, d, v, idx) ==
  IF n < Len(a) - 3 * m + 1
  THEN LET f  == DriftLoop(a, m, n, 0, R0)
           nx == Reflect(Detrend(a, m, n, f), m, n)
           w  == WindowLoop(nx, m, n, n - 3 * m, R0, v)
       IN  TotalLoop(a, m, n + 1,
                     RAdd(d, RMul(RDiv(w.sum, R(6)), R(m))), w.v,
                     Append(idx, n))
  ELSE [d |-> d, n |-> n, v |-> v, idx |-> idx]

\* bias = 0.73
Bias == <<73, 100>>

mtotdevBody(x, m) ==
  LET l   == TotalLoop(x, m, 0, R0, Undefined, <<>>)
      d   == RDiv(l.d, R(2 * (Len(x) - 3 * m + 1)))
      g   == Gated(l.n, SqrtOver(RDiv(d, Bias), m * m))
  IN  Run(g, l.n, d, l.idx, l.v)

htotdevBody(y, m) ==
  LET l   == TotalLoop(y, m, 0, R0, Undefined, <<>>)
      d   == RDiv(l.d, R(6 * (Len(y) - 3 * m + 1)))
      g   == Gated(l.n, SqrtOver(d, 1))
  IN  Run(g, l.n, d, l.idx, l.v)

\* A faulty variant: dev * m / 3
TimeDevBy3(dev, m) == [rad |-> RDiv(RMul(dev.rad, R(m * m)), R(9))]

\* dev * m / Math.sqrt(3)
TimeDev(dev, m) == [rad |-> RDiv(RMul(dev.rad, R(m * m)), R(3))]

\* ---------------------------------------------------- windowed statistics
\* a[k] as an operand of +=: the element, or NaN for the `undefined` that
\* reading at or past a.length yields.
Elem(a, k) ==
  IF k < Len(a) THEN At(a, k) ELSE NaN

\* a + b, a * b, a / b and a > b, a < b on numbers that may be NaN or infinite
NAdd(a, b) ==
  IF a = NaN \/ b = NaN THEN NaN ELSE RAdd(a, b)

NMul(a, b) ==
  IF a = NaN \/ b = NaN THEN NaN ELSE RMul(a, b)

NDiv(a, b) ==
  IF a = NaN \/ b = NaN THEN NaN ELSE RDiv(a, b)

NGt(a, b) ==
  a # NaN /\ b # NaN /\ a[1] * b[2] > b[1] * a[2]

NLt(a, b) == NGt(b, a)

\* for (var j = 0; j < m; j++) { avg += a[i + j]; }
RECURSIVE arrayAvgLoop(_, _, _, _, _)
arrayAvgLoop(i, m, a, j, avg) ==
  IF j < m
  THEN arrayAvgLoop(i, m, a, j + 1, NAdd(avg, Elem(a, i + j)))
  ELSE avg

\* _arrayAvg(i, m, a), reached through _phaseAvg and _freqAvg
arrayAvg(i, m, a) ==
  NDiv(arrayAvgLoop(i, m, a, 0, R0), R(m))

\* The indices of a that _arrayAvg(i, m, a) reads.
arrayAvgReads(i, m) == i..(i + m - 1)

\* What one run of a windowed statistic leaves behind: the value stored, the
\* block starts i at which _arrayAvg was called, and the indices it read.
WinRun(val, idx, reads) ==
  [val |-> [num |-> val], idx |-> idx, reads |-> reads]

\* for (var i = 0; i < len; i += m) { sum += this._phaseAvg(i, m); }
RECURSIVE AvgLoop(_, _, _, _, _, _)
AvgLoop(a, m, i, sum, idx, reads) ==
  IF i < Len(a)
  THEN AvgLoop(a, m, i + m, NAdd(sum, arrayAvg(i, m, a)), Append(idx, i),
               reads \cup arrayAvgReads(i, m))
  ELSE [acc |-> sum, idx |-> idx, reads |-> reads]

\* this.values.xavg[m] = sum * m / len
avgBody(a, m) ==
  LET l == AvgLoop(a, m, 0, R0, <<>>, {})
  IN  WinRun(NDiv(NMul(l.acc, R(m)), R(Len(a))), l.idx, l.reads)

\* for (...; i < len; i += m) { a = this._phaseAvg(i, m); if (a > max) max = a; }
RECURSIVE MaxLoop(_, _, _, _, _, _)
MaxLoop(a, m, i, cur, idx, reads) ==
  IF i < Len(a)
  THEN LET av == arrayAvg(i, m, a)
       IN  MaxLoop(a, m, i + m, IF NGt(av, cur) THEN av ELSE cur,
                   Append(idx, i), reads \cup arrayAvgReads(i, m))
  ELSE [acc |-> cur, idx |-> idx, reads |-> reads]

\* this.values.xmax[m] = -Infinity; <loop>
maxBody(a, m) ==
  LET l == MaxLoop(a, m, 0, <<-1, 0>>, <<>>, {})
  IN  WinRun(l.acc, l.idx, l.reads)

\* for (...; i < len; i += m) { a = this._phaseAvg(i, m); if (a < min) min = a; }
RECURSIVE MinLoop(_, _, _, _, _, _)
MinLoop(a, m, i, cur, idx, reads) ==
  IF i < Len(a)
  THEN LET av == arrayAvg(i, m, a)
       IN  MinLoop(a, m, i + m, IF NLt(av, cur) THEN av ELSE cur,
                   Append(idx, i), reads \cup arrayAvgReads(i, m))
  ELSE [acc |-> cur, idx |-> idx, reads |-> reads]

\* this.values.xmin[m] = Infinity; <loop>
minBody(a, m) ==
  LET l == MinLoop(a, m, 0, <<1, 0>>, <<>>, {})
  IN  WinRun(l.acc, l.idx, l.reads)

\* ------------------------------------------------------------------ state
VARIABLES
  x,         \* this.x: the phase array
  y,         \* this.y: the frequency array
  values,    \* this.values: statistic name -> sparse array indexed by m
  globalV,   \* the property v of the global object (undeclared in getMtotdev)
  ret,       \* what the last call returned, and how it was produced
  loaded,    \* the last load operation: "none", "phase" or "freq"
  nloads,    \* load operations so far
  nmisses,   \* queries so far that ran an estimator body
  conv       \* the last round trip through the conversion primitives

vars == <<x, y, values, globalV, ret, loaded, nloads, nmisses, conv>>

\* The keys of this.values, as the constructor creates them.
Keys ==
  {"xavg", "xmax", "xmin", "yavg", "ymax", "ymin", "stdev", "adev", "oadev",
   "mdev", "tdev", "hdev", "ohdev", "totdev", "mtotdev", "ttotdev", "htotdev"}

\* The deviation estimators.
Devs ==
  {"adev", "oadev", "mdev", "tdev", "hdev", "ohdev", "totdev", "mtotdev",
   "ttotdev", "htotdev"}

Ms == 1..MaxM

\* ------------------------------------------------------------------ inputs
\* a, a + b, a + 2b, ...
Ramp(len, a, b) == [i \in 1..len |-> R(a + b * (i - 1))]

\* 0, ..., 0, 1, 0, ..., 0 with the 1 at position k (k = 0: none)
Pulse(len, k) == [i \in 1..len |-> IF i = k THEN R(1) ELSE R0]

\* The sample arrays a caller loads.
Samples ==
  {Ramp(len, 0, b) : len \in 0..MaxLen, b \in 1..MaxSlope}
    \cup {Pulse(len, PulseAt) : len \in 0..MaxLen}

\* The name lists handed to getSigmaTauPlot.
PlotRequests ==
  {<<"ADEV", "HDEV">>,
   <<"mdev", "Tdev", "OADEV", "OHDEV", "TOTDEV", "MtotDev", "TTOTDEV",
     "htotdev", "AVAR">>}

\* String.prototype.toLowerCase on the labels in use.
toLowerCase(s) ==
  CASE s = "ADEV" -> "adev"
    [] s = "HDEV" -> "hdev"
    [] s = "mdev" -> "mdev"
    [] s = "Tdev" -> "tdev"
    [] s = "OADEV" -> "oadev"
    [] s = "OHDEV" -> "ohdev"
    [] s = "TOTDEV" -> "totdev"
    [] s = "MtotDev" -> "mtotdev"
    [] s = "TTOTDEV" -> "ttotdev"
    [] s = "htotdev" -> "htotdev"
    [] s = "AVAR" -> "avar"

\* ----------------------------------------------------------- construction
NoCall ==
  [op |-> "new", m |-> 0, val |-> Undefined, hit |-> FALSE, n |-> 0,
   acc |-> R0, gate |-> "none", idx |-> <<>>, series |-> <<>>,
   reads |-> {}]

NoConv == [fn |-> "none", arg |-> <<>>, tau0 |-> 0, mid |-> <<>>, out |-> <<>>]

\* new Allan.Dataset(name)
Init ==
  /\ x = <<>>
  /\ y = <<>>
  /\ values = [k \in Keys |-> [m \in Ms |-> Undefined]]
  /\ globalV = Undefined
  /\ ret = NoCall
  /\ loaded = "none"
  /\ nloads = 0
  /\ nmisses = 0
  /\ conv = NoConv

\* ------------------------------------------------------------------ loads
loadPhaseFromArray(phase) ==
  /\ nloads < MaxLoads
  /\ x' = phase
  /\ y' = phaseToFreq(phase, 0)
  /\ ret' = [NoCall EXCEPT !.op = "loadPhaseFromArray"]
  /\ loaded' = "phase"
  /\ nloads' = nloads + 1
  /\ UNCHANGED <<values, globalV, nmisses, conv>>

loadFreqFromArray(freq) ==
  /\ nloads < MaxLoads
  /\ y' = freq
  /\ x' = freqToPhase(freq, 0)
  /\ ret' = [NoCall EXCEPT !.op = "loadFreqFromArray"]
  /\ loaded' = "freq"
  /\ nloads' = nloads + 1
  /\ UNCHANGED <<values, globalV, nmisses, conv>>

\* ---------------------------------------------------------------- queries
\* if (this.values.<key>[m] === undefined) { <body>; this.values.<key>[m] = ... }
\* return this.values.<key>[m];
Cached(key, m) == values[key][m] # Undefined

\* A faulty variant: the result is memoized at index 1 whatever m is.
EstimateFixedIndex(key, m, run) ==
  IF values[key][m] # Undefined
  THEN /\ ret' = [NoCall EXCEPT !.op = key, !.m = m, !.val = values[key][m],
                                !.hit = TRUE, !.gate = "hit"]
       /\ UNCHANGED <<x, y, values, globalV, loaded, nloads, nmisses, conv>>
  ELSE /\ nmisses < MaxMisses
       /\ values' = [values EXCEPT ![key][1] = run.val]
       /\ globalV' = IF run.gv = Undefined THEN globalV ELSE run.gv
       /\ ret' = [NoCall EXCEPT !.op = key, !.m = m, !.val = run.val,
                                !.n = run.n, !.acc = run.acc,
                                !.gate = run.gate, !.idx = run.idx]
       /\ nmisses' = nmisses + 1
       /\ UNCHANGED <<x, y, loaded, nloads, conv>>

\* The call of an estimator whose body, on a miss, leaves `run`.
Estimate(key, m, run) ==
  IF Cached(key, m)
  THEN /\ ret' = [NoCall EXCEPT !.op = key, !.m = m, !.val = values[key][m],
                                !.hit = TRUE, !.gate = "hit"]
       /\ UNCHANGED <<x, y, values, globalV, loaded, nloads, nmisses, conv>>
  ELSE /\ nmisses < MaxMisses
       /\ values' = [values EXCEPT ![key][m] = run.val]
       /\ globalV' = IF run.gv = Undefined THEN globalV ELSE run.gv
       /\ ret' = [NoCall EXCEPT !.op = key, !.m = m, !.val = run.val,
                                !.n = run.n, !.acc = run.acc,
                                !.gate = run.gate, !.idx = run.idx]
       /\ nmisses' = nmisses + 1
       /\ UNCHANGED <<x, y, loaded, nloads, conv>>

\* The call of a time deviation: dev = this.get<Base>(m) inside the
\* undefined test, then this.values.<key>[m] = dev * m / Math.sqrt(3).
Derive(key, base, m, run) ==
  IF Cached(key, m)
  THEN /\ ret' = [NoCall EXCEPT !.op = key, !.m = m, !.val = values[key][m],
                                !.hit = TRUE, !.gate = "hit"]
       /\ UNCHANGED <<x, y, values, globalV, loaded, nloads, nmisses, conv>>
  ELSE /\ nmisses < MaxMisses
       /\ IF Cached(base, m)
          THEN /\ values' = [values EXCEPT
                               ![key][m] = TimeDev(values[base][m], m)]
               /\ ret' = [NoCall EXCEPT !.op = key, !.m = m,
                            !.val = TimeDev(values[base][m], m),
                            !.gate = "hit"]
               /\ UNCHANGED globalV
          ELSE /\ values' = [values EXCEPT ![base][m] = run.val,
                               ![key][m] = TimeDev(run.val, m)]
               /\ ret' = [NoCall EXCEPT !.op = key, !.m = m,
                            !.val = TimeDev(run.val, m), !.n = run.n,
                            !.acc = run.acc, !.gate = run.gate,
                            !.idx = run.idx]
               /\ globalV' = IF run.gv = Undefined THEN globalV ELSE run.gv
       /\ nmisses' = nmisses + 1
       /\ UNCHANGED <<x, y, loaded, nloads, conv>>

getAdev(m) == Estimate("adev", OrOne(m), adevBody(x, OrOne(m)))

getOadev(m) == Estimate("oadev", OrOne(m), oadevBody(x, OrOne(m)))

getMdev(m) == Estimate("mdev", OrOne(m), mdevBody(x, OrOne(m)))

getTdev(m) == Derive("tdev", "mdev", OrOne(m), mdevBody(x, OrOne(m)))

getHdev(m) == Estimate("hdev", OrOne(m), hdevBody(x, OrOne(m)))

getOhdev(m) == Estimate("ohdev", OrOne(m), ohdevBody(x, OrOne(m)))

getTotdev(m) == Estimate("totdev", OrOne(m), totdevBody(x, OrOne(m)))

getMtotdev(m) == Estimate("mtotdev", OrOne(m), mtotdevBody(x, OrOne(m)))

getTtotdev(m) == Derive("ttotdev", "mtotdev", OrOne(m), mtotdevBody(x, OrOne(m)))

getHtotdev(m) == Estimate("htotdev", OrOne(m), htotdevBody(y, OrOne(m)))

\* The call of a windowed statistic whose body, on a miss, leaves `run`.
Windowed(key, m, run) ==
  IF Cached(key, m)
  THEN /\ ret' = [NoCall EXCEPT !.op = key, !.m = m, !.val = values[key][m],
                                !.hit = TRUE, !.gate = "hit"]
       /\ UNCHANGED <<x, y, values, globalV, loaded, nloads, nmisses, conv>>
  ELSE /\ nmisses < MaxMisses
       /\ values' = [values EXCEPT ![key][m] = run.val]
       /\ ret' = [NoCall EXCEPT !.op = key, !.m = m, !.val = run.val,
                                !.n = Len(run.idx), !.idx = run.idx,
                                !.reads = run.reads]
       /\ nmisses' = nmisses + 1
       /\ UNCHANGED <<x, y, globalV, loaded, nloads, conv>>

getPhaseAvg(m) == Windowed("xavg", OrOne(m), avgBody(x, OrOne(m)))

getFreqAvg(m) == Windowed("yavg", OrOne(m), avgBody(y, OrOne(m)))

getPhaseMax(m) == Windowed("xmax", OrOne(m), maxBody(x, OrOne(m)))

getFreqMax(m) == Windowed("ymax", OrOne(m), maxBody(y, OrOne(m)))

getPhaseMin(m) == Windowed("xmin", OrOne(m), minBody(x, OrOne(m)))

getFreqMin(m) == Windowed("ymin", OrOne(m), minBody(y, OrOne(m)))

\* ------------------------------------------------------------------- plot
\* A faulty variant: only the undefined entries are skipped.
RECURSIVE PlotDataKeepZero(_, _, _)
PlotDataKeepZero(adev, m, v) ==
  IF m > MaxM THEN v
  ELSE PlotDataKeepZero(adev, m + 1,
                        IF adev[m] # Undefined
                        THEN Append(v, <<m, adev[m]>>)
                        ELSE v)

\* for (var val in adev) if (adev[val] !== undefined && adev[val] !== 0)
\*   v.push([val, adev[val]]);   -- val runs over the indices that were set,
\* in ascending order (kept here as the number m, not its string key).
RECURSIVE PlotData(_, _, _)
PlotData(adev, m, v) ==
  IF m > MaxM THEN v
  ELSE PlotData(adev, m + 1,
                IF adev[m] # Undefined /\ adev[m] # Zero
                THEN Append(v, <<m, adev[m]>>)
                ELSE v)

\* series.push({ label: d[dev], data: v }), for each dev in d
PlotSeries(d) ==
  [k \in 1..Len(d) |->
     LET dname == toLowerCase(d[k])
     IN  [label |-> d[k],
          data  |-> IF dname \in Keys THEN PlotData(values[dname], 1, <<>>)
                    ELSE <<>>]]

getSigmaTauPlot(d) ==
  /\ ret' = [NoCall EXCEPT !.op = "getSigmaTauPlot", !.series = PlotSeries(d)]
  /\ UNCHANGED <<x, y, values, globalV, loaded, nloads, nmisses, conv>>

\* ---------------------------------------------------------- specification
Next ==
  \/ \E a \in Samples : loadPhaseFromArray(a)
  \/ \E a \in Samples : loadFreqFromArray(a)
  \/ \E m \in Ms : getAdev(m)
  \/ \E m \in Ms : getOadev(m)
  \/ \E m \in Ms : getMdev(m)
  \/ \E m \in Ms : getTdev(m)
  \/ \E m \in Ms : getHdev(m)
  \/ \E m \in Ms : getOhdev(m)
  \/ \E m \in Ms : getTotdev(m)
  \/ \E m \in Ms : getMtotdev(m)
  \/ \E m \in Ms : getTtotdev(m)
  \/ \E m \in Ms : getHtotdev(m)
  \/ \E d \in PlotRequests : getSigmaTauPlot(d)

Spec == Init /\ [][Next]_vars

\* The lifecycle spec.md section 3 describes: a Dataset is created empty,
\* populated exactly once by a load operation, then queried.
NextOnce ==
  \/ nloads = 0 /\ \E a \in Samples : loadPhaseFromArray(a)
  \/ nloads = 0 /\ \E a \in Samples : loadFreqFromArray(a)
  \/ nloads = 1 /\ \E m \in Ms : getAdev(m)
  \/ nloads = 1 /\ \E m \in Ms : getOadev(m)
  \/ nloads = 1 /\ \E m \in Ms : getMdev(m)
  \/ nloads = 1 /\ \E m \in Ms : getTdev(m)
  \/ nloads = 1 /\ \E m \in Ms : getHdev(m)
  \/ nloads = 1 /\ \E m \in Ms : getOhdev(m)
  \/ nloads = 1 /\ \E m \in Ms : getTotdev(m)
  \/ nloads = 1 /\ \E m \in Ms : getMtotdev(m)
  \/ nloads = 1 /\ \E m \in Ms : getTtotdev(m)
  \/ nloads = 1 /\ \E m \in Ms : getHtotdev(m)
  \/ nloads = 1 /\ \E d \in PlotRequests : getSigmaTauPlot(d)

SpecOnce == Init /\ [][NextOnce]_vars

\* ------------------------------------------- the conversion primitives alone
\* Sequences of length at most n over the set s.
RECURSIVE SeqsUpTo(_, _)
SeqsUpTo(s, n) ==
  IF n = 0 THEN {<<>>}
  ELSE LET shorter == SeqsUpTo(s, n - 1)
       IN  shorter \cup {Append(q, e) : q \in {r \in shorter : Len(r) = n - 1}, e \in s}

ConvInputs == SeqsUpTo({R(k) : k \in (0 - MaxConvVal)..MaxConvVal}, MaxConvLen)

\* phaseToFreq(freqToPhase(y, tau0), tau0)
freqRoundTrip(a, tau0) ==
  /\ conv' = [fn |-> "freqRoundTrip", arg |-> a, tau0 |-> tau0,
               mid |-> freqToPhase(a, tau0),
               out |-> phaseToFreq(freqToPhase(a, tau0), tau0)]
  /\ UNCHANGED <<x, y, values, globalV, ret, loaded, nloads, nmisses>>

\* freqToPhase(phaseToFreq(x, tau0), tau0)
phaseRoundTrip(a, tau0) ==
  /\ conv' = [fn |-> "phaseRoundTrip", arg |-> a, tau0 |-> tau0,
               mid |-> phaseToFreq(a, tau0),
               out |-> freqToPhase(phaseToFreq(a, tau0), tau0)]
  /\ UNCHANGED <<x, y, values, globalV, ret, loaded, nloads, nmisses>>

\* One call of a round trip on a sequence of ConvInputs; conv records it.
NextConv ==
  \/ conv = NoConv /\ \E a \in ConvInputs, tau0 \in 0..MaxTau0 : freqRoundTrip(a, tau0)
  \/ conv = NoConv /\ \E a \in ConvInputs, tau0 \in 0..MaxTau0 : phaseRoundTrip(a, tau0)

SpecConv == Init /\ [][NextConv]_vars

\* --------------------------------------------- the windowed statistics alone
\* Loads and the six windowed statistics of a Dataset.
NextWin ==
  \/ \E a \in Samples : loadPhaseFromArray(a)
  \/ \E a \in Samples : loadFreqFromArray(a)
  \/ \E m \in Ms : getPhaseAvg(m)
  \/ \E m \in Ms : getFreqAvg(m)
  \/ \E m \in Ms : getPhaseMax(m)
  \/ \E m \in Ms : getFreqMax(m)
  \/ \E m \in Ms : getPhaseMin(m)
  \/ \E m \in Ms : getFreqMin(m)

SpecWin == Init /\ [][NextWin]_vars

\* ------------------------------------------ the modified total deviation alone
\* Phase arrays long enough for more than MIN_SAMPLES windows of 3m samples:
\* a single 1 among zeros, at every position.
TotSamples == {Pulse(len, k) : len \in 0..MaxTotLen, k \in 1..MaxTotLen}

\* One load of a phase array, then getMtotdev.
NextTot ==
  \/ nloads = 0 /\ \E a \in TotSamples : loadPhaseFromArray(a)
  \/ nloads = 1 /\ \E m \in Ms : getMtotdev(m)

SpecTot == Init /\ [][NextTot]_vars

\* ----------------------------------------------------------------- claims
\* The run of the estimator behind `key` on the arrays now loaded, with an
\* empty cache (for tdev and ttotdev: the run of the estimator they scale).
FreshRun(key, m) ==
  CASE key = "adev" -> adevBody(x, m)
    [] key = "oadev" -> oadevBody(x, m)
    [] key \in {"mdev", "tdev"} -> mdevBody(x, m)
    [] key = "hdev" -> hdevBody(x, m)
    [] key = "ohdev" -> ohdevBody(x, m)
    [] key = "totdev" -> totdevBody(x, m)
    [] key \in {"mtotdev", "ttotdev"} -> mtotdevBody(x, m)
    [] key = "htotdev" -> htotdevBody(y, m)

\* The statistic `key` of the arrays now loaded, recomputed with an empty cache.
Fresh(key, m) ==
  IF key \in {"tdev", "ttotdev"}
  THEN TimeDev(FreshRun(key, m).val, m)
  ELSE FreshRun(key, m).val

\* C1: after any sequence of loads and queries, every statistic query
\* returns the statistic of the sample arrays loaded at that moment, never a
\* value memoized from arrays loaded (or left empty) before.
C1_ReloadClearsCache ==
  ret.op \in Devs => ret.val = Fresh(ret.op, ret.m)

\* C2: on a Dataset loaded once, every cache entry equals a recomputation of
\* its estimator from the sample arrays with an empty cache, and every call,
\* the first or a later one, returns the entry the cache holds for it; so a
\* repeated call returns what the first call returned, whatever was queried
\* in between.
C2_MemoFaithful ==
  /\ \A key \in Devs, m \in Ms :
       Cached(key, m) => values[key][m] = Fresh(key, m)
  /\ ret.op \in Devs => ret.val = values[ret.op][ret.m]

\* A cache hit returning a non-zero value after two different bodies ran.
C2_Witness ==
  /\ ret.op \in Devs
  /\ ret.hit
  /\ ret.val # Zero
  /\ nmisses = 2

\* C3 as claimed: after loadPhaseFromArray(x) for any finite x, the empty
\* one included, y.length = x.length - 1; after loadFreqFromArray(y),
\* x.length = y.length + 1 and x[0] = 0.
C3_LengthClaimed ==
  /\ loaded = "phase" => Len(y) = Len(x) - 1
  /\ loaded = "freq" => Len(x) = Len(y) + 1 /\ At(x, 0) = R0

\* C3 amended: after loadPhaseFromArray(x), y.length = x.length - 1 when x
\* is not empty and both arrays are empty when it is; after
\* loadFreqFromArray(y), x.length = y.length + 1 and x[0] = 0.
C3_LengthAmended ==
  /\ loaded = "phase" =>
       IF Len(x) = 0 THEN Len(y) = 0 ELSE Len(y) = Len(x) - 1
  /\ loaded = "freq" => Len(x) = Len(y) + 1 /\ At(x, 0) = R0

\* A one-element phase array was loaded: the frequency array is empty.
C3_Witness ==
  /\ loaded = "phase"
  /\ Len(x) = 1
  /\ Len(y) = 0

\* C4: with the same tau0, phaseToFreq(freqToPhase(y, tau0), tau0) = y for
\* every y, and freqToPhase(phaseToFreq(x, tau0), tau0) = x for every
\* non-empty x with x[0] = 0 (in exact arithmetic).
C4_RoundTrip ==
  /\ conv.fn = "freqRoundTrip" => conv.out = conv.arg
  /\ (conv.fn = "phaseRoundTrip" /\ Len(conv.arg) > 0 /\ At(conv.arg, 0) = R0)
       => conv.out = conv.arg

\* A phase array starting at 0 went through tau0 = 2 and a non-integer
\* frequency and came back.
C4_Witness ==
  /\ conv.fn = "phaseRoundTrip"
  /\ conv.tau0 = 2
  /\ Len(conv.arg) = MaxConvLen
  /\ At(conv.arg, 0) = R0
  /\ \E i \in 1..Len(conv.mid) : conv.mid[i][2] = 2
  /\ conv.out = conv.arg

IsRamp(a) ==
  \A i \in 1..(Len(a) - 2) : RSub(a[i + 1], a[i]) = RSub(a[i + 2], a[i + 1])

\* C7: when the phase array is an arithmetic progression, for every m the
\* squared second and third differences getAdev and getHdev accumulate sum
\* to 0 and both return 0.
C7_Ramp ==
  IsRamp(x) =>
    /\ \A m \in Ms :
         /\ Cached("adev", m) => values["adev"][m] = Zero
         /\ Cached("hdev", m) => values["hdev"][m] = Zero
    /\ ret.op \in {"adev", "hdev"} => (ret.val = Zero /\ ret.acc = R0)

\* The scenario of spec.md: x = [0,1,2,3,4,5]; getAdev(1) evaluates its
\* square-root formula (n = 4 > 3) and returns 0.
C7_Witness ==
  /\ x = Ramp(6, 0, 1)
  /\ ret.op = "adev"
  /\ ret.m = 1
  /\ ret.gate = "sqrt"
  /\ ret.val = Zero

\* C8: whenever the cache holds tdev[m] it holds mdev[m], and
\* 3 * tdev[m]^2 = m^2 * mdev[m]^2.
C8_TdevMdev ==
  \A m \in Ms :
    Cached("tdev", m) =>
      /\ Cached("mdev", m)
      /\ RMul(R(3), values["tdev"][m].rad)
           = RMul(R(m * m), values["mdev"][m].rad)

\* getMdev(m) ran on one array, another array was loaded, and getTdev(m)
\* then derived a non-zero tdev[m] from the mdev[m] still in the cache.
C8_Witness ==
  /\ nloads = 2
  /\ ret.op = "tdev"
  /\ ~ret.hit
  /\ ret.gate = "hit"
  /\ ret.val # Zero
  /\ values["mdev"][ret.m] # Fresh("mdev", ret.m)

\* The key of this.values a label names when case is ignored.
KeyNamed(label) ==
  CASE label \in {"ADEV"} -> "adev"
    [] label \in {"HDEV"} -> "hdev"
    [] label \in {"mdev"} -> "mdev"
    [] label \in {"Tdev"} -> "tdev"
    [] label \in {"OADEV"} -> "oadev"
    [] label \in {"OHDEV"} -> "ohdev"
    [] label \in {"TOTDEV"} -> "totdev"
    [] label \in {"MtotDev"} -> "mtotdev"
    [] label \in {"TTOTDEV"} -> "ttotdev"
    [] label \in {"htotdev"} -> "htotdev"
    [] OTHER -> "none"

\* The m whose cached value under `key` is defined and not zero.
Plotted(key) ==
  IF key \in Keys
  THEN {m \in Ms : values[key][m] # Undefined /\ values[key][m] # Zero}
  ELSE {}

\* The series s lists exactly the pairs (m, cache[key][m]), m in Plotted(key),
\* in ascending order of m.
SeriesExact(s) ==
  LET key == KeyNamed(s.label)
  IN  /\ Len(s.data) = Cardinality(Plotted(key))
      /\ \A i \in 1..Len(s.data) :
           /\ s.data[i][1] \in Plotted(key)
           /\ s.data[i][2] = values[key][s.data[i][1]]
      /\ \A i, j \in 1..Len(s.data) : i < j => s.data[i][1] < s.data[j][1]

\* What getSigmaTauPlot returned is the projection of the cache for one of
\* the name lists.
PlotExact ==
  /\ \E d \in PlotRequests :
       /\ Len(ret.series) = Len(d)
       /\ \A k \in 1..Len(d) : ret.series[k].label = d[k]
  /\ \A k \in 1..Len(ret.series) : SeriesExact(ret.series[k])

\* C9: a call of getSigmaTauPlot changes no cache entry, and for each
\* requested name, matched ignoring case, it returns exactly the pairs
\* (m, cache[name][m]) over the m whose cached value is defined and not 0.
C9_PlotProjection ==
  [][ret'.op = "getSigmaTauPlot" => (values' = values /\ PlotExact')]_vars

\* A plotted series whose cache row holds a zero, which is omitted, and a
\* non-zero value, which is the only point.
C9_Witness ==
  /\ ret.op = "getSigmaTauPlot"
  /\ \E k \in 1..Len(ret.series) :
       LET key == KeyNamed(ret.series[k].label)
       IN  /\ key \in Keys
           /\ \E m \in Ms : values[key][m] = Zero
           /\ Len(ret.series[k].data) = 1

\* C10: a statistic query changes nothing but entries of the Dataset's own
\* cache: its x and y arrays are unchanged and nothing outside the Dataset
\* (a global variable) is written.
C10_QueryFrame ==
  [][ret'.op \in Devs => (x' = x /\ y' = y /\ globalV' = globalV)]_vars

\* The statistics computed over blocks of m samples, and the array of each.
Wins == {"xavg", "xmax", "xmin", "yavg", "ymax", "ymin"}

WinArray(key) ==
  IF key \in {"xavg", "xmax", "xmin"} THEN x ELSE y

\* C11: when a windowed statistic (phase or frequency average, maximum,
\* minimum) is computed with m larger than the length of its sample array,
\* its block loop makes no iteration: no block average is evaluated and no
\* index at or past the end of the array is read.
C11_NoBlockBeyondLength ==
  (ret.op \in Wins /\ ~ret.hit /\ ret.m > Len(WinArray(ret.op))) =>
    /\ ret.n = 0
    /\ \A k \in ret.reads : k < Len(WinArray(ret.op))

\* The nested definition of the comment above getMdev:
\*   SUM over i = j .. j + m - 1 of [x(i + 2m) - 2x(i + m) + x(i)]
RECURSIVE NestedWindow(_, _, _, _)
NestedWindow(a, m, j, k) ==
  IF k = m THEN R0
  ELSE RAdd(RSub(RAdd(a[j + k + 2 * m + 1], a[j + k + 1]),
                 RMul(R(2), a[j + k + m + 1])),
            NestedWindow(a, m, j, k + 1))

\*   SUM over j = from .. N - 3m of { NestedWindow(j) }^2
RECURSIVE NestedSum(_, _, _)
NestedSum(a, m, from) ==
  IF from > Len(a) - 3 * m THEN R0
  ELSE RAdd(RSq(NestedWindow(a, m, from, 0)), NestedSum(a, m, from + 1))

\* C12: for a phase array of length N >= 3m, a run of getMdev accumulates
\* n = N - 3m + 1 terms, the k-th value of the running accumulator v that is
\* squared (k = 0 .. N - 3m) is the sum of the m second differences starting
\* at index k, and sum is the sum of the squares of these window sums.
C12_MdevUnnested ==
  (ret.op \in {"mdev", "tdev"} /\ ret.gate \in {"zero", "sqrt"}
     /\ Len(x) >= 3 * ret.m) =>
    LET l == MdevLoops(x, ret.m)
    IN  /\ ret.n = Len(x) - 3 * ret.m + 1
        /\ ret.acc = NestedSum(x, ret.m, 0)
        /\ l.sum = ret.acc
        /\ Len(l.vs) = ret.n
        /\ \A k \in 0..(Len(x) - 3 * ret.m) :
             l.vs[k + 1] = NestedWindow(x, ret.m, k, 0)

\* getMdev(2) ran on seven samples: two windows of two second differences
\* each, not all zero.
C12_Witness ==
  /\ ret.op = "mdev"
  /\ ~ret.hit
  /\ ret.m = 2
  /\ Len(x) = 7
  /\ ret.n = 2
  /\ ret.acc # R0
  /\ NestedWindow(x, 2, 0, 0) # NestedWindow(x, 2, 1, 0)

\* C13: in a run of getTotdev on a phase array of length N, the guard passes
\* exactly when m <= N - 1; when it passes the extended array has length
\* 3N - 4, the loop accumulates at i = 1 .. N - 2 (N - 2 terms) and every
\* index it reads is inside the extended array; when it fails no term is
\* accumulated, sum stays 0 and the value is 0.
C13_TotdevGuard ==
  (ret.op = "totdev" /\ ~ret.hit) =>
    LET len == Len(x)
        ext == TotdevExtend(x, 1, x, 0)
    IN  /\ TotdevGuard(ext.e, len, ret.m) <=> ret.m <= len - 1
        /\ TotdevGuard(ext.e, len, ret.m) =>
             /\ Len(ext.nx) = 3 * len - 4
             /\ ret.n = len - 2
             /\ ret.idx = [k \in 1..(len - 2) |-> k]
             /\ \A k \in 1..Len(ret.idx) :
                  TotdevReads(ext.e, ret.idx[k], ret.m)
                    \subseteq 0..(Len(ext.nx) - 1)
        /\ ~TotdevGuard(ext.e, len, ret.m) =>
             /\ ret.n = 0
             /\ ret.idx = <<>>
             /\ ret.acc = R0
             /\ ret.val = Zero

\* getTotdev(2) ran on three samples (m = N - 1): the guard passed and the
\* one term read the first and the last element of the extended array.
C13_Witness ==
  /\ ret.op = "totdev"
  /\ ~ret.hit
  /\ ret.m = 2
  /\ Len(x) = 3
  /\ ret.n = 1
  /\ TotdevReads(TotdevExtend(x, 1, x, 0).e, ret.idx[1], 2) = {0, 2, 4}

\* The sum of squares the window starting at n contributes in getMtotdev.
WindowSum(a, m, n) ==
  LET f  == DriftLoop(a, m, n, 0, R0)
      nx == Reflect(Detrend(a, m, n, f), m, n)
  IN  WindowLoop(nx, m, n, n - 3 * m, R0, Undefined).sum

\* SUM over the windows n = from .. N - 3m of window_sum / (6m)
RECURSIVE DocumentedTotal(_, _, _)
DocumentedTotal(a, m, from) ==
  IF from > Len(a) - 3 * m THEN R0
  ELSE RAdd(RDiv(WindowSum(a, m, from), R(6 * m)),
            DocumentedTotal(a, m, from + 1))

\* C14: when getMtotdev runs on more than 3 windows (N - 3m + 1 > 3), the
\* value v it stores satisfies
\*   v^2 * m^4 * 0.73 = (1 / (2 * (N - 3m + 1))) * SUM of window_sum / (6m).
C14_MtotdevNormalisation ==
  (ret.op = "mtotdev" /\ ~ret.hit /\ Len(x) - 3 * ret.m + 1 > 3) =>
    RMul(RMul(ret.val.rad, R(ret.m * ret.m * ret.m * ret.m)), Bias)
      = RDiv(DocumentedTotal(x, ret.m, 0), R(2 * (Len(x) - 3 * ret.m + 1)))

\* max(0, k)
AtLeast0(k) ==
  IF k < 0 THEN 0 ELSE k

C16_PhaseFreqConsistent ==
  \A i \in 0..(Len(y) - 1) :
    /\ i + 1 < Len(x)
    /\ At(y, i) = RSub(At(x, i + 1), At(x, i))

\* A frequency array with a non-zero sample replaced an earlier load, and a
\* frequency-based estimator then ran on it.
C16_Witness ==
  /\ nloads = 2
  /\ loaded = "freq"
  /\ Len(y) >= 3
  /\ \E i \in 1..Len(y) : y[i] # R0
  /\ ret.op = "htotdev"
  /\ ~ret.hit

====
